---- MODULE Spec2Model ----
(***************************************************************************)
(* Persona-driven section extraction and ranking                           *)
(* (src/src/main.py, section_extractor.py, persona_matcher.py).            *)
(*                                                                         *)
(* Text.  A word is the tuple of its lower-case letters, so that the       *)
(* substring tests of the scorer are computed, not assumed.  A string is   *)
(* a sequence of pieces: a piece is the text between two sentence          *)
(* terminators, [len |-> its stripped length, runs |-> its alphabetic      *)
(* runs in order, term |-> the terminator that follows it ("" when the     *)
(* string ends without one)].  The alphabetic runs of a piece stand at its *)
(* start, separated by single blanks; the rest of the piece is             *)
(* non-alphabetic filler (digits and blanks).  Pieces are rendered         *)
(* piece, terminator, blank.                                               *)
(*                                                                         *)
(* Scores.  Python floats are modelled in fixed point: raw keyword sums in *)
(* tenths, ln() in thousandths (LnMilli), keyword scores in thousandths    *)
(* and relevance scores in 1/10000.                                        *)
(***************************************************************************)
EXTENDS Integers, Sequences, FiniteSets, TLC

VARIABLES
    pc,                 \* the step the run is at
    persona,            \* main.py:59, the persona string
    job_to_be_done,     \* main.py:60, the task string
    model,              \* PersonaMatcher.model: "none" or "loaded"
    encoder,            \* what the loaded model's encode() does
    all_sections,       \* main.py:83, the list handed to match_sections
    relevant_sections,  \* main.py:117, the list match_sections returned
    reranked,           \* match_sections applied to its own result
    document,           \* the parsed document handed to extract_sections
    extracted,          \* the list extract_sections returned
    classified,         \* what the heading classifier said of each block of a page
    split_input,        \* the content handed to _extract_quality_subsections
    split_result,       \* the list _extract_quality_subsections returned
    pdf_files,          \* main.py:63, the files found in the input directory
    futures,            \* main.py:90, the state of each submitted task
    results,            \* what each finished task returned
    processed_documents, \* main.py:84
    failed_log,         \* the files reported "Failed to process" (main.py:105)
    rank_calls,         \* how many times match_sections has been called
    output_data         \* main.py:121, what format_output returned

rankVars == <<persona, job_to_be_done, model, encoder,
              all_sections, relevant_sections, reranked>>

segmentVars == <<document, extracted, classified>>

splitVars == <<split_input, split_result>>

batchVars == <<pdf_files, futures, results, processed_documents, failed_log,
               rank_calls, output_data>>

vars == <<pc, rankVars, segmentVars, splitVars, batchVars>>

\* main.py:88, ThreadPoolExecutor(max_workers=3)
MaxWorkers == 3

\* persona_matcher.py:65, scored_sections[:15]
TopSections == 15

\* persona_matcher.py:57, sorted(...)[:3]
TopSubsections == 3

\* persona_matcher.py:111, section['content'][:500]
EmbedPrefix == 500

w_this == <<"t","h","i","s">>
w_untitled == <<"u","n","t","i","t","l","e","d">>
w_at == <<"a","t">>
w_last == <<"l","a","s","t">>
w_of == <<"o","f">>
w_ok == <<"o","k">>
w_summary == <<"s","u","m","m","a","r","y">>
w_we == <<"w","e">>
w_data == <<"d","a","t","a">>
w_testing == <<"t","e","s","t","i","n","g">>
w_test == <<"t","e","s","t">>
w_tests == <<"t","e","s","t","s">>
w_caching == <<"c","a","c","h","i","n","g">>
w_systems == <<"s","y","s","t","e","m","s">>
w_researcher == <<"r","e","s","e","a","r","c","h","e","r">>
w_understand == <<"u","n","d","e","r","s","t","a","n","d">>
w_approach == <<"a","p","p","r","o","a","c","h">>
w_paper == <<"p","a","p","e","r">>
w_studies == <<"s","t","u","d","i","e","s">>
w_use == <<"u","s","e">>
w_trace == <<"t","r","a","c","e">>
w_replay == <<"r","e","p","l","a","y">>
w_introduction == <<"i","n","t","r","o","d","u","c","t","i","o","n">>
w_methodology == <<"m","e","t","h","o","d","o","l","o","g","y">>
w_document == <<"d","o","c","u","m","e","n","t">>
w_content == <<"c","o","n","t","e","n","t">>
w_general == <<"g","e","n","e","r","a","l">>
w_extract == <<"e","x","t","r","a","c","t">>
w_relevant == <<"r","e","l","e","v","a","n","t">>
w_information == <<"i","n","f","o","r","m","a","t","i","o","n">>
w_results == <<"r","e","s","u","l","t","s">>
w_ing == <<"i","n","g">>
w_overview == <<"o","v","e","r","v","i","e","w">>

\* persona_matcher.py:79-83, the stopword list of _extract_dynamic_keywords
stopwords ==
    { <<"t","h","e">>,
      <<"a","n","d">>,
      <<"f","o","r">>,
      <<"w","i","t","h">>,
      <<"t","h","i","s">>,
      <<"t","h","a","t">>,
      <<"w","h","o">>,
      <<"w","h","a","t">>,
      <<"w","h","e","r","e">>,
      <<"w","h","e","n">>,
      <<"w","h","y">>,
      <<"h","o","w">>,
      <<"a","r","e">>,
      <<"w","a","s">>,
      <<"w","e","r","e">>,
      <<"b","e","e","n">>,
      <<"h","a","v","e">>,
      <<"h","a","s">>,
      <<"w","i","l","l">>,
      <<"w","o","u","l","d">>,
      <<"c","o","u","l","d">>,
      <<"s","h","o","u","l","d">>,
      <<"c","a","n">>,
      <<"m","a","y">>,
      <<"m","u","s","t">>,
      <<"n","e","e","d">> }

\* round(1000 * math.log(n)) for n = 1..128 (persona_matcher.py:147, :171)
LnMilli ==
    << 0, 693, 1099, 1386, 1609, 1792, 1946, 2079, 2197, 2303, 2398, 2485, 2565, 2639, 2708, 2773,
       2833, 2890, 2944, 2996, 3045, 3091, 3135, 3178, 3219, 3258, 3296, 3332, 3367, 3401, 3434, 3466,
       3497, 3526, 3555, 3584, 3611, 3638, 3664, 3689, 3714, 3738, 3761, 3784, 3807, 3829, 3850, 3871,
       3892, 3912, 3932, 3951, 3970, 3989, 4007, 4025, 4043, 4060, 4078, 4094, 4111, 4127, 4143, 4159,
       4174, 4190, 4205, 4220, 4234, 4248, 4263, 4277, 4290, 4304, 4317, 4331, 4344, 4357, 4369, 4382,
       4394, 4407, 4419, 4431, 4443, 4454, 4466, 4477, 4489, 4500, 4511, 4522, 4533, 4543, 4554, 4564,
       4575, 4585, 4595, 4605, 4615, 4625, 4635, 4644, 4654, 4663, 4673, 4682, 4691, 4700, 4710, 4718,
       4727, 4736, 4745, 4754, 4762, 4771, 4779, 4787, 4796, 4804, 4812, 4820, 4828, 4836, 4844, 4852 >>

(***************************************************************************)
(* Helpers                                                                 *)
(***************************************************************************)
Min(a, b) == IF a <= b THEN a ELSE b

Max(a, b) == IF a >= b THEN a ELSE b

\* Python's `a in b` on two lower-case alphabetic strings
IsSubstr(a, b) ==
    \E i \in 0..(Len(b) - Len(a)) : SubSeq(b, i + 1, i + Len(a)) = a

\* str.endswith
EndsWith(wd, suf) ==
    /\ Len(wd) >= Len(suf)
    /\ SubSeq(wd, Len(wd) - Len(suf) + 1, Len(wd)) = suf

\* seq[:n]
Take(seq, n) == SubSeq(seq, 1, Min(n, Len(seq)))

\* sorted(seq, key=lambda x: x[key], reverse=True): Python's sort is stable,
\* also with reverse=True, so equal keys keep their input order
RECURSIVE InsertDesc(_, _, _)
InsertDesc(sorted, x, key) ==
    IF sorted = <<>> THEN <<x>>
    ELSE IF Head(sorted)[key] >= x[key]
         THEN <<Head(sorted)>> \o InsertDesc(Tail(sorted), x, key)
         ELSE <<x>> \o sorted

\* sorted(seq, key=...)[::-1]: ascending, then reversed, which turns the
\* order of equal keys around
RECURSIVE InsertAsc(_, _, _)
InsertAsc(sorted, x, key) ==
    IF sorted = <<>> THEN <<x>>
    ELSE IF Head(sorted)[key] <= x[key]
         THEN <<Head(sorted)>> \o InsertAsc(Tail(sorted), x, key)
         ELSE <<x>> \o sorted

RECURSIVE SortAsc(_, _)
SortAsc(seq, key) ==
    IF seq = <<>> THEN <<>>
    ELSE InsertAsc(SortAsc(SubSeq(seq, 1, Len(seq) - 1), key), seq[Len(seq)], key)

SortDesc_Reversed(seq, key) ==
    LET asc == SortAsc(seq, key)
    IN  [i \in 1..Len(asc) |-> asc[Len(asc) + 1 - i]]

RECURSIVE SortDesc(_, _)
SortDesc(seq, key) ==
    IF seq = <<>> THEN <<>>
    ELSE InsertDesc(SortDesc(SubSeq(seq, 1, Len(seq) - 1), key), seq[Len(seq)], key)

\* section.get("subsections", [])
GetSubsections(section) ==
    IF "subsections" \in DOMAIN section THEN section.subsections ELSE <<>>

RECURSIVE SumF(_, _)
SumF(f, S) ==
    IF S = {} THEN 0
    ELSE LET x == CHOOSE y \in S : TRUE IN f[x] + SumF(f, S \ {x})

RECURSIVE Flatten(_)
Flatten(ss) == IF ss = <<>> THEN <<>> ELSE Head(ss) \o Flatten(Tail(ss))

\* The alphabetic runs of a string (a sequence of pieces), in order
Runs(str) == Flatten([i \in 1..Len(str) |-> str[i].runs])

\* re.findall(r'\b[a-zA-Z]{3,}\b', ...) on the runs of a lower-cased text
FindWords(runs) == SelectSeq(runs, LAMBDA r : Len(r) >= 3)

\* len(s.strip()) of a string rendered piece, terminator, blank
RECURSIVE StrLen(_)
StrLen(str) ==
    IF str = <<>> THEN 0
    ELSE Head(str).len + Len(Head(str).term)
         + (IF Len(str) > 1 THEN 1 + StrLen(Tail(str)) ELSE 0)

(***************************************************************************)
(* persona_matcher.py: the scorer                                          *)
(***************************************************************************)
\* the suffix stripped from a keyword by the expansion loop, 0 when none
StemCut(k) ==
    IF EndsWith(k, <<"i","n","g">>) THEN 3
    ELSE IF EndsWith(k, <<"e","d">>) THEN 2
    ELSE IF EndsWith(k, <<"s">>) THEN 1
    ELSE 0

\* PersonaMatcher._extract_dynamic_keywords
ExtractDynamicKeywords(p, j) ==
    LET words == FindWords(Runs(p) \o Runs(j))
        keywords == { words[i] : i \in { n \in 1..Len(words) :
                          words[n] \notin stopwords /\ Len(words[n]) > 2 } }
    IN  keywords \cup { SubSeq(k, 1, Len(k) - StemCut(k)) :
                          k \in { x \in keywords : StemCut(x) > 0 } }

\* score / math.log(content_length + 1) in thousandths, from a sum in tenths
Normalize(tenths, content_length) ==
    IF content_length > 0
    THEN (tenths * 100000) \div LnMilli[content_length + 1]
    ELSE tenths * 100

\* `keyword in section["title"].lower()`
InTitle(k, title) ==
    k = <<>> \/ \E i \in 1..Len(title.runs) : IsSubstr(k, title.runs[i])

\* the number of words w with `keyword in word or word in keyword`
PartialMatches(k, text_words) ==
    Cardinality({ i \in 1..Len(text_words) :
                    IsSubstr(k, text_words[i]) \/ IsSubstr(text_words[i], k) })

\* word_freq.get(keyword, 0)
WordFreq(k, text_words) ==
    Cardinality({ i \in 1..Len(text_words) : text_words[i] = k })

\* the exact-match bonus given once per keyword, not once per occurrence
RawKeywordSum_Presence(section, keywords) ==
    LET text_words == FindWords(section.title.runs \o Runs(section.content))
        per == [k \in keywords |->
                    20 * Min(1, WordFreq(k, text_words))
                  + 5 * PartialMatches(k, text_words)
                  + (IF InTitle(k, section.title) THEN 30 ELSE 0)]
    IN  SumF(per, keywords)

\* the sum accumulated by the keyword loop of _calculate_keyword_relevance,
\* in tenths (2.0 per exact match, 0.5 per partial match, 3.0 per title hit)
RawKeywordSum(section, keywords) ==
    LET text_words == FindWords(section.title.runs \o Runs(section.content))
        per == [k \in keywords |->
                    20 * WordFreq(k, text_words)
                  + 5 * PartialMatches(k, text_words)
                  + (IF InTitle(k, section.title) THEN 30 ELSE 0)]
    IN  SumF(per, keywords)

\* PersonaMatcher._calculate_keyword_relevance, in thousandths
CalculateKeywordRelevance(section, keywords) ==
    Normalize(RawKeywordSum(section, keywords),
              Len(FindWords(section.title.runs \o Runs(section.content))))

\* PersonaMatcher._calculate_subsection_relevance, in thousandths
CalculateSubsectionRelevance(subsection, keywords) ==
    LET text_words == FindWords(subsection.content.runs)
        per == [k \in keywords |->
                    15 * WordFreq(k, text_words)
                  + 3 * PartialMatches(k, text_words)]
    IN  Normalize(SumF(per, keywords), Len(text_words))

\* self.model.encode raising on this section's text
EncodeRaises(section) ==
    \/ encoder.raises = "always"
    \/ encoder.raises = "odd" /\ section.title.chars % 2 = 1

\* The cosine of the two embeddings, in thousandths, in -200..1000.  The
\* embedding is computed by an external model: a fixed function of the
\* section text (title and the first 500 characters of the content), here
\* selected by encoder.seed.
CosineMilli(section) ==
    ((encoder.seed * (section.title.chars
                      + 3 * Min(EmbedPrefix, StrLen(section.content)))) % 13) * 100
    - 200

\* PersonaMatcher._calculate_semantic_similarity, in thousandths
CalculateSemanticSimilarity(section) ==
    IF model = "none" THEN 0
    ELSE IF EncodeRaises(section) THEN 0
    ELSE Max(0, CosineMilli(section))

\* the relevance score of match_sections' loop body, in 1/10000
RelevanceScore(section, keywords) ==
    IF model # "none"
    THEN 7 * CalculateSemanticSimilarity(section)
         + 3 * CalculateKeywordRelevance(section, keywords)
    ELSE 10 * CalculateKeywordRelevance(section, keywords)

\* the subsections scored and cut to three, the sort left out
ScoreSubsections_Unsorted(section, keywords) ==
    LET subs == GetSubsections(section)
    IN  Take([i \in 1..Len(subs) |->
                 [relevance_score |->
                     CalculateSubsectionRelevance(subs[i], keywords)] @@ subs[i]],
             TopSubsections)

\* persona_matcher.py:42-57: the scored copies of a section's subsections,
\* sorted by relevance, the top 3 kept
ScoreSubsections(section, keywords) ==
    LET subs == GetSubsections(section)
        scored_subsections ==
            [i \in 1..Len(subs) |->
                [relevance_score |->
                    CalculateSubsectionRelevance(subs[i], keywords)] @@ subs[i]]
    IN  Take(SortDesc(scored_subsections, "relevance_score"), TopSubsections)

\* persona_matcher.py:28-59: the scored copy of one section
ScoreSection(section, keywords) ==
    [relevance_score |-> RelevanceScore(section, keywords),
     subsections |-> ScoreSubsections(section, keywords)] @@ section

\* the slice one too long
AssignRanks_OffByOne(scored_sections) ==
    LET top_sections == Take(scored_sections, TopSections + 1)
    IN  [i \in 1..Len(top_sections) |->
            [importance_rank |-> i] @@ top_sections[i]]

\* persona_matcher.py:64-67: the top sections with their importance ranks
AssignRanks(scored_sections) ==
    LET top_sections == Take(scored_sections, TopSections)
    IN  [i \in 1..Len(top_sections) |->
            [importance_rank |-> i] @@ top_sections[i]]

\* the list cut to the top bound before it is sorted
MatchSections_TruncateFirst(sections, p, j) ==
    IF sections = <<>> THEN <<>>
    ELSE LET persona_keywords == ExtractDynamicKeywords(p, j)
             scored_sections ==
                 [i \in 1..Len(sections) |->
                     ScoreSection(sections[i], persona_keywords)]
         IN  AssignRanks(SortDesc(Take(scored_sections, TopSections),
                                  "relevance_score"))

\* PersonaMatcher.match_sections
MatchSections(sections, p, j) ==
    IF sections = <<>> THEN <<>>
    ELSE LET persona_keywords == ExtractDynamicKeywords(p, j)
             scored_sections ==
                 [i \in 1..Len(sections) |->
                     ScoreSection(sections[i], persona_keywords)]
         IN  AssignRanks(SortDesc(scored_sections, "relevance_score"))

\* the copy is the dict itself: every write to it lands in the caller's dict
DictCopy_Alias(d) == [fresh |-> FALSE, dict |-> d]

\* persona_matcher.py:39 and :48, dict.copy(): a new dict with the items of
\* d; a write to a key of the copy does not reach d
DictCopy(d) == [fresh |-> TRUE, dict |-> d]

\* the dicts of the list handed to match_sections, as the caller sees them
\* after the call.  The writes of match_sections are
\*   section_copy["relevance_score"] and section_copy["subsections"] (:40, :53),
\*   subsection_copy["relevance_score"] (:49),
\*   section["importance_rank"] on the elements of scored_sections (:67);
\* scored_sections, scored_subsections and the result of sorted() are new
\* lists, so a write reaches the caller only through a dict that is not
\* fresh.
InputAfter(sections, p, j) ==
    LET persona_keywords == ExtractDynamicKeywords(p, j)
        result == MatchSections(sections, p, j)
        SubAfter(subsection) ==
            IF DictCopy(subsection).fresh THEN subsection
            ELSE [relevance_score |->
                     CalculateSubsectionRelevance(subsection, persona_keywords)]
                 @@ subsection
        Ranked(scored) ==
            IF \E k \in 1..Len(result) :
                   result[k] = [importance_rank |-> k] @@ scored
            THEN [importance_rank |->
                     CHOOSE k \in 1..Len(result) :
                         result[k] = [importance_rank |-> k] @@ scored] @@ scored
            ELSE scored
        SectionAfter(section) ==
            IF DictCopy(section).fresh
            THEN IF "subsections" \in DOMAIN section
                 THEN [section EXCEPT !.subsections =
                          [k \in 1..Len(section.subsections) |->
                              SubAfter(section.subsections[k])]]
                 ELSE section
            ELSE Ranked(ScoreSection(section, persona_keywords))
    IN  [i \in 1..Len(sections) |-> SectionAfter(sections[i])]

(***************************************************************************)
(* section_extractor.py: the subsection splitter                           *)
(***************************************************************************)
\* the length of the terminator of a piece
TermLen(piece) == IF piece.term = "" THEN 0 ELSE 1

\* The alphabetic runs of piece p that start before character `cut` of the
\* string when p starts at offset `off`; a run the cut falls into is clipped.
RECURSIVE RunsOfPiece(_, _, _)
RunsOfPiece(rs, off, cut) ==
    IF rs = <<>> \/ off >= cut THEN <<>>
    ELSE <<SubSeq(Head(rs), 1, Min(Len(Head(rs)), cut - off))>>
         \o RunsOfPiece(Tail(rs), off + Len(Head(rs)) + 1, cut)

RECURSIVE RunsFrom(_, _, _)
RunsFrom(str, off, cut) ==
    IF str = <<>> \/ off >= cut THEN <<>>
    ELSE RunsOfPiece(Head(str).runs, off, cut)
         \o RunsFrom(Tail(str), off + Head(str).len + TermLen(Head(str)) + 1, cut)

\* the alphabetic runs of s.strip()[:cut]
RunsWithin(str, cut) == RunsFrom(str, 0, cut)

\* s.strip()[:cut] as a value: its length and its runs
Clip(str, cut) == [chars |-> Min(cut, StrLen(str)), runs |-> RunsWithin(str, cut)]

\* the pieces of a string without their terminators: ' '.join of stripped
\* sentences
Unterminated(str) == [i \in 1..Len(str) |-> [str[i] EXCEPT !.term = ""]]

\* re.split(sentence_endings, text), stripped: a piece without terminator
\* runs on into the next one.  Each element is the string of one sentence.
RECURSIVE SplitOn(_, _)
SplitOn(str, open) ==
    IF str = <<>> THEN (IF open = <<>> THEN <<>> ELSE <<open>>)
    ELSE IF Head(str).term = ""
         THEN SplitOn(Tail(str), Append(open, Head(str)))
         ELSE <<Append(open, Head(str))>> \o SplitOn(Tail(str), <<>>)

\* the stripped length of one sentence (its terminator is not part of it)
SentenceLen(sentence) == StrLen(Unterminated(sentence))

\* SectionExtractor._split_into_sentences
SplitIntoSentences(text) ==
    SelectSeq(SplitOn(text, <<>>), LAMBDA sn : SentenceLen(sn) > 10)

\* ' '.join(chunk)
JoinSentences(chunk) == Unterminated(Flatten(chunk))

\* the first longest sentence of a non-empty list: max(..., key=len)
RECURSIVE Longest(_)
Longest(sentences) ==
    IF Len(sentences) = 1 THEN sentences[1]
    ELSE LET rest == Longest(Tail(sentences))
         IN  IF SentenceLen(Head(sentences)) >= SentenceLen(rest)
             THEN Head(sentences) ELSE rest

\* SectionExtractor._create_quality_summary: the length of the summary
CreateQualitySummary(sentences) ==
    IF sentences = <<>> THEN [chars |-> 0]
    ELSE IF Len(sentences) = 1
         THEN [chars |-> Min(200, SentenceLen(sentences[1])) + 3]
         ELSE LET first == sentences[1]
                  longest == Longest(Tail(sentences))
                  n == IF Unterminated(longest) # Unterminated(first)
                       THEN SentenceLen(first) + 1 + SentenceLen(longest)
                       ELSE SentenceLen(first)
              IN  [chars |-> IF n > 300 THEN 300 + 3 ELSE n]

\* the reference markers found in a piece
RefsOf(piece) == IF "refs" \in DOMAIN piece THEN piece.refs ELSE {}

\* SectionExtractor._extract_references (the texts of the model hold at
\* most 5 markers per pattern and 8 in all, so neither cap cuts)
ExtractReferences(text) == UNION { RefsOf(text[i]) : i \in 1..Len(text) }

\* the languages whose stopwords _extract_key_terms removes
StopLanguages ==
    {"english", "spanish", "french", "german", "italian", "portuguese"}

\* section_extractor.py:265, common_stops
common_stops ==
    { <<"t","h","i","s">>, <<"t","h","a","t">>, <<"w","i","t","h">>,
      <<"f","r","o","m">>, <<"t","h","e","y">>, <<"w","e","r","e">>,
      <<"b","e","e","n">>, <<"h","a","v","e">>, <<"w","i","l","l">>,
      <<"s","a","i","d">> }

\* the distinct elements of a sequence in order of first occurrence
RECURSIVE Distinct(_)
Distinct(seq) ==
    IF seq = <<>> THEN <<>>
    ELSE LET init == Distinct(SubSeq(seq, 1, Len(seq) - 1))
             x == seq[Len(seq)]
         IN  IF \E i \in 1..Len(init) : init[i] = x THEN init ELSE Append(init, x)

\* SectionExtractor._extract_key_terms: Counter.most_common(10), count > 1
ExtractKeyTerms(text, languages) ==
    LET words == SelectSeq(Runs(text), LAMBDA r : Len(r) >= 4)
        stops == IF languages \cap StopLanguages # {} THEN common_stops ELSE {}
        filtered == SelectSeq(words, LAMBDA r : r \notin stops)
        terms == Distinct(filtered)
        word_freq == [i \in 1..Len(terms) |->
                         [word |-> terms[i],
                          count |-> WordFreq(terms[i], filtered)]]
        common == SelectSeq(Take(SortDesc(word_freq, "count"), 10),
                            LAMBDA c : c.count > 1)
    IN  [i \in 1..Len(common) |-> common[i].word]

\* one subsection dict
MakeSubsection(text, sentences, languages) ==
    [content |-> Clip(text, 800),
     summary |-> CreateQualitySummary(sentences),
     references |-> ExtractReferences(text),
     key_terms |-> ExtractKeyTerms(text, languages)]

\* the loop of _extract_quality_subsections over range(0, n, chunk_size)
RECURSIVE ChunkLoop(_, _, _, _, _)
ChunkLoop(sentences, i, chunk_size, subsections, languages) ==
    IF i > Len(sentences) \/ Len(subsections) >= 3 THEN subsections
    ELSE LET chunk == SubSeq(sentences, i, Min(Len(sentences), i + chunk_size - 1))
             subsection_text == JoinSentences(chunk)
         IN  ChunkLoop(sentences, i + chunk_size, chunk_size,
                       IF StrLen(subsection_text) > 50
                       THEN Append(subsections,
                                   MakeSubsection(subsection_text, chunk, languages))
                       ELSE subsections,
                       languages)

\* SectionExtractor._extract_quality_subsections
ExtractQualitySubsections(content, languages) ==
    IF StrLen(content) < 100 THEN <<>>
    ELSE LET sentences == SplitIntoSentences(content)
         IN  IF Len(sentences) <= 3
             THEN << MakeSubsection(content, sentences, languages) >>
             ELSE ChunkLoop(sentences, 1, Max(3, Len(sentences) \div 4),
                            <<>>, languages)

(***************************************************************************)
(* section_extractor.py: the heading classifier and the segmenter          *)
(*                                                                         *)
(* A block is [text, page, font_size, font_flags, languages].  Its text is *)
(* [str |-> the pieces, pattern |-> one of heading_patterns matches,       *)
(* keyword_langs |-> the languages one of whose section keywords occurs in *)
(* the text, split |-> len(text.split()), numbered |-> which of the three  *)
(* enumerator patterns of _determine_heading_level matches first, or 0].   *)
(***************************************************************************)
\* font_flags & 16
Bold(font_flags) == (font_flags \div 16) % 2 = 1

RECURSIVE SumFonts(_)
SumFonts(blocks) ==
    IF blocks = <<>> THEN 0 ELSE Head(blocks).font_size + SumFonts(Tail(blocks))

\* the font signal at 1.2 times the average
IsQualityHeading_TwelveTenths(block, all_blocks, languages) ==
    LET n == StrLen(block.text.str)
    IN  IF ~(3 <= n /\ n <= 200) THEN FALSE
        ELSE IF block.text.pattern THEN TRUE
        ELSE IF block.text.keyword_langs \cap languages # {} /\ block.text.split <= 8
             THEN TRUE
        ELSE IF all_blocks # <<>>
             THEN \/ block.font_size * 10 * Len(all_blocks) > 12 * SumFonts(all_blocks)
                  \/ Bold(block.font_flags) /\ block.text.split <= 10
        ELSE FALSE

\* SectionExtractor._is_quality_heading
IsQualityHeading(block, all_blocks, languages) ==
    LET n == StrLen(block.text.str)
    IN  IF ~(3 <= n /\ n <= 200) THEN FALSE
        ELSE IF block.text.pattern THEN TRUE
        ELSE IF block.text.keyword_langs \cap languages # {} /\ block.text.split <= 8
             THEN TRUE
        ELSE IF all_blocks # <<>>
             THEN \* font_size > avg_font_size * 1.3
                  \/ block.font_size * 10 * Len(all_blocks) > 13 * SumFonts(all_blocks)
                  \/ Bold(block.font_flags) /\ block.text.split <= 10
        ELSE FALSE

\* SectionExtractor._clean_heading_text: the texts are single-spaced; a
\* trailing "!" or "?" is outside [\w\s:.-] and is removed, and the result
\* is cut at 150 characters
CleanHeadingText(str) ==
    LET last == str[Len(str)]
        cleaned == IF last.term \in {"!", "?"}
                   THEN [str EXCEPT ![Len(str)].term = ""] ELSE str
    IN  Clip(cleaned, 150)

\* the distinct font sizes of the blocks, largest first
RECURSIVE SortedSizes(_)
SortedSizes(S) ==
    IF S = {} THEN <<>>
    ELSE LET m == CHOOSE x \in S : \A y \in S : y <= x
         IN  <<m>> \o SortedSizes(S \ {m})

\* SectionExtractor._determine_heading_level
DetermineHeadingLevel(block, all_blocks) ==
    IF block.text.numbered # 0 THEN block.text.numbered
    ELSE LET font_sizes ==
                 Take(SortedSizes({ all_blocks[i].font_size : i \in 1..Len(all_blocks) }), 3)
             hits == { i \in 1..Len(font_sizes) : font_sizes[i] = block.font_size }
         IN  IF hits # {} THEN CHOOSE i \in hits : TRUE ELSE 2

\* title.lower() in ['document content', 'untitled'], or shorter than 3
GenericTitle(title) ==
    \/ title.chars < 3
    \/ title = [chars |-> 16, runs |-> <<w_document, w_content>>]
    \/ title = [chars |-> 8, runs |-> <<w_untitled>>]

\* len(content.split('.'))
SplitDots(content) ==
    Cardinality({ i \in 1..Len(content) : content[i].term = "." }) + 1

\* the structure test asking for one more part
IsQualitySection_FourDots(section) ==
    IF StrLen(section.content) < 50 THEN FALSE
    ELSE IF GenericTitle(section.title) THEN StrLen(section.content) > 200
    ELSE \/ Len(GetSubsections(section)) > 0
         \/ SplitDots(section.content) > 4

\* SectionExtractor._is_quality_section
IsQualitySection(section) ==
    IF StrLen(section.content) < 50 THEN FALSE
    ELSE IF GenericTitle(section.title) THEN StrLen(section.content) > 200
    ELSE \/ Len(GetSubsections(section)) > 0
         \/ SplitDots(section.content) > 3

\* "no current section"
None == [none |-> TRUE]

\* section_extractor.py:54-58 and :85-89: the current section is appended,
\* with its subsections, when its content is longer than 50
SaveSection(sections, current_section, languages) ==
    IF current_section # None /\ StrLen(current_section.content) > 50
    THEN Append(sections,
                [current_section EXCEPT !.subsections =
                    ExtractQualitySubsections(current_section.content, languages)])
    ELSE sections

\* the walk with the text of a dropped section carried into the next one
WalkBlock_CarryDropped(st, block, page_blocks, doc_languages) ==
    IF StrLen(block.text.str) < 3 THEN st
    ELSE IF IsQualityHeading(block, page_blocks, doc_languages)
    THEN [sections |-> SaveSection(st.sections, st.current_section, doc_languages),
          current_section |->
              [title |-> CleanHeadingText(block.text.str),
               page |-> block.page,
               level |-> DetermineHeadingLevel(block, page_blocks),
               content |-> IF st.current_section # None
                              /\ StrLen(st.current_section.content) <= 50
                           THEN st.current_section.content ELSE <<>>,
               subsections |-> <<>>,
               languages |-> block.languages]]
    ELSE IF st.current_section # None
    THEN [st EXCEPT !.current_section.content = @ \o block.text.str]
    ELSE [st EXCEPT !.current_section =
              [title |-> [chars |-> 16, runs |-> <<w_document, w_content>>],
               page |-> block.page,
               level |-> 1,
               content |-> block.text.str,
               subsections |-> <<>>,
               languages |-> block.languages]]

\* section_extractor.py:46-82: one block of the walk
WalkBlock(st, block, page_blocks, doc_languages) ==
    IF StrLen(block.text.str) < 3 THEN st
    ELSE IF IsQualityHeading(block, page_blocks, doc_languages)
    THEN [sections |-> SaveSection(st.sections, st.current_section, doc_languages),
          current_section |->
              [title |-> CleanHeadingText(block.text.str),
               page |-> block.page,
               level |-> DetermineHeadingLevel(block, page_blocks),
               content |-> <<>>,
               subsections |-> <<>>,
               languages |-> block.languages]]
    ELSE IF st.current_section # None
    THEN [st EXCEPT !.current_section.content = @ \o block.text.str]
    ELSE [st EXCEPT !.current_section =
              [title |-> [chars |-> 16, runs |-> <<w_document, w_content>>],
               page |-> block.page,
               level |-> 1,
               content |-> block.text.str,
               subsections |-> <<>>,
               languages |-> block.languages]]

RECURSIVE WalkPage(_, _, _, _)
WalkPage(st, blocks, page_blocks, doc_languages) ==
    IF blocks = <<>> THEN st
    ELSE WalkPage(WalkBlock(st, Head(blocks), page_blocks, doc_languages),
                  Tail(blocks), page_blocks, doc_languages)

RECURSIVE WalkPages(_, _, _)
WalkPages(st, pages, doc_languages) ==
    IF pages = <<>> THEN st
    ELSE WalkPages(WalkPage(st, Head(pages).blocks, Head(pages).blocks, doc_languages),
                   Tail(pages), doc_languages)

\* section_extractor.py:38-89: the sections the walk appends, before the
\* quality filter
FinalizedSections(document_data) ==
    LET doc_languages == document_data.detected_languages
        st == WalkPages([sections |-> <<>>, current_section |-> None],
                        document_data.pages, doc_languages)
    IN  IF st.current_section = None THEN st.sections
        ELSE SaveSection(st.sections, st.current_section,
                         st.current_section.languages)

\* SectionExtractor.extract_sections
ExtractSections(document_data) ==
    IF document_data.pages = <<>> THEN <<>>
    ELSE SelectSeq(FinalizedSections(document_data), IsQualitySection)

(***************************************************************************)
(* Block texts.  Each is a concrete string; its attributes are what the    *)
(* regular expressions of section_extractor.py and                        *)
(* PDFParser.detect_language give on it.  "000..." is digit filler.        *)
(***************************************************************************)
\* "1. Introduction", 15 characters
t_h1 ==
    [str |-> << [len |-> 1, runs |-> <<>>, term |-> "."],
               [len |-> 12, runs |-> <<w_introduction>>, term |-> ""] >>,
     pattern |-> TRUE, keyword_langs |-> {"english", "french"},
     split |-> 2, numbered |-> 1,
     languages |-> {"english", "latin"}]

\* "2. Methodology", 14 characters
t_h2 ==
    [str |-> << [len |-> 1, runs |-> <<>>, term |-> "."],
               [len |-> 11, runs |-> <<w_methodology>>, term |-> ""] >>,
     pattern |-> TRUE, keyword_langs |-> {"english"},
     split |-> 2, numbered |-> 1,
     languages |-> {"latin", "portuguese"}]

\* "Caching: data, testing", 22 characters
t_colon ==
    [str |-> << [len |-> 22, runs |-> <<w_caching, w_data, w_testing>>, term |-> ""] >>,
     pattern |-> FALSE, keyword_langs |-> {},
     split |-> 3, numbered |-> 0,
     languages |-> {"english", "italian", "latin", "portuguese", "spanish"}]

\* "This paper studies caching.", 27 characters
t_short ==
    [str |-> << [len |-> 26, runs |-> <<w_this, w_paper, w_studies, w_caching>>, term |-> "."] >>,
     pattern |-> FALSE, keyword_langs |-> {},
     split |-> 4, numbered |-> 0,
     languages |-> {"german", "italian", "latin", "portuguese", "spanish"}]

\* "We use trace replay.", 20 characters
t_trace ==
    [str |-> << [len |-> 19, runs |-> <<w_we, w_use, w_trace, w_replay>>, term |-> "."] >>,
     pattern |-> FALSE, keyword_langs |-> {},
     split |-> 4, numbered |-> 0,
     languages |-> {"italian", "latin", "portuguese", "spanish"}]

\* "Results data 00000...", 60 characters
t_mid ==
    [str |-> << [len |-> 59, runs |-> <<w_results, w_data>>, term |-> "."] >>,
     pattern |-> FALSE, keyword_langs |-> {"english"},
     split |-> 3, numbered |-> 0,
     languages |-> {"italian", "latin", "portuguese", "spanish"}]

\* "Overview data 00000...", 60 characters
t_body ==
    [str |-> << [len |-> 59, runs |-> <<w_overview, w_data>>, term |-> "."] >>,
     pattern |-> FALSE, keyword_langs |-> {},
     split |-> 3, numbered |-> 0,
     languages |-> {"italian", "latin", "portuguese"}]

\* "Testing data 00000...", 167 characters
t_para ==
    [str |-> << [len |-> 40, runs |-> <<w_testing, w_data>>, term |-> "."],
               [len |-> 40, runs |-> <<w_data, w_results>>, term |-> "?"],
               [len |-> 40, runs |-> <<w_overview>>, term |-> "."],
               [len |-> 40, runs |-> <<w_caching, w_data>>, term |-> "."] >>,
     pattern |-> FALSE, keyword_langs |-> {"english"},
     split |-> 11, numbered |-> 0,
     languages |-> {"english", "italian", "latin", "portuguese", "spanish"}]

\* "Data testing 00000...", 403 characters
t_long ==
    [str |-> << [len |-> 200, runs |-> <<w_data, w_testing>>, term |-> "."],
               [len |-> 200, runs |-> <<w_results, w_overview>>, term |-> "."] >>,
     pattern |-> FALSE, keyword_langs |-> {"english"},
     split |-> 6, numbered |-> 0,
     languages |-> {"english", "italian", "latin", "portuguese", "spanish"}]

\* "Caching overview 00000...", 901 characters
t_huge ==
    [str |-> << [len |-> 900, runs |-> <<w_caching, w_overview>>, term |-> "."] >>,
     pattern |-> FALSE, keyword_langs |-> {},
     split |-> 3, numbered |-> 0,
     languages |-> {"italian", "latin", "portuguese"}]

\* "ok", 2 characters
t_tiny ==
    [str |-> << [len |-> 2, runs |-> <<w_ok>>, term |-> ""] >>,
     pattern |-> TRUE, keyword_langs |-> {},
     split |-> 1, numbered |-> 0,
     languages |-> {"latin"}]

\* "Results, at last!", 17 characters
t_exclaim ==
    [str |-> << [len |-> 16, runs |-> <<w_results, w_at, w_last>>, term |-> "!"] >>,
     pattern |-> FALSE, keyword_langs |-> {"english"},
     split |-> 3, numbered |-> 0,
     languages |-> {"italian", "latin", "portuguese", "spanish"}]

\* "Summary of results, data", 24 characters
t_kw ==
    [str |-> << [len |-> 24, runs |-> <<w_summary, w_of, w_results, w_data>>, term |-> ""] >>,
     pattern |-> FALSE, keyword_langs |-> {"english"},
     split |-> 4, numbered |-> 0,
     languages |-> {"english", "italian", "latin", "portuguese", "spanish"}]

(***************************************************************************)
(* Inputs of the ranking runs                                              *)
(***************************************************************************)
\* a string of one piece
Str1(n, rs, t) == << [len |-> n, runs |-> rs, term |-> t] >>

\* a title: its length and its alphabetic runs, lower-cased
Title(n, rs) == [chars |-> n, runs |-> rs]

Sub(n, rs) ==
    [content |-> [chars |-> n, runs |-> rs], summary |-> [chars |-> Min(n, 203)],
     references |-> {}, key_terms |-> <<>>]

\* persona and task: ("", ""), ("Data", "testing data"), ("Systems
\* Researcher", "understand caching approach") and the defaults of
\* main.py:59-60
Queries ==
    { [persona |-> <<>>, job |-> <<>>],
      [persona |-> Str1(4, <<w_data>>, ""),
       job |-> Str1(12, <<w_testing, w_data>>, "")],
      [persona |-> Str1(18, <<w_systems, w_researcher>>, ""),
       job |-> Str1(27, <<w_understand, w_caching, w_approach>>, "")],
      [persona |-> Str1(18, <<w_general, w_researcher>>, ""),
       job |-> Str1(28, <<w_extract, w_relevant, w_information>>, "")] }

\* PersonaMatcher.__init__: the model failed to load, or it loaded and its
\* encode() never raises, always raises, or raises on some texts
Encoders ==
    { [model |-> "none", encoder |-> [seed |-> 0, raises |-> "never"]],
      [model |-> "loaded", encoder |-> [seed |-> 1, raises |-> "never"]],
      [model |-> "loaded", encoder |-> [seed |-> 5, raises |-> "odd"]],
      [model |-> "loaded", encoder |-> [seed |-> 1, raises |-> "always"]] }

sub_a == Sub(40, <<w_data, w_data, w_testing>>)
sub_b == Sub(60, <<w_data>>)
sub_c == Sub(55, <<w_results>>)
sub_d == Sub(70, <<w_overview, w_results>>)
sub_e == Sub(52, <<w_testing>>)

\* "Overview" / "results overview 00000 ..." 
sec_overview ==
    [title |-> Title(8, <<w_overview>>), level |-> 1,
     content |-> Str1(60, <<w_results, w_overview>>, "."),
     subsections |-> <<sub_c, sub_d>>]

\* "Data" / "" 
sec_data ==
    [title |-> Title(4, <<w_data>>), level |-> 1,
     content |-> <<>>, subsections |-> <<>>]

\* "Results" / "testing 12345 data. data data. "
sec_results ==
    [title |-> Title(7, <<w_results>>), level |-> 2,
     content |-> Str1(18, <<w_testing, w_data>>, ".")
                 \o Str1(9, <<w_data, w_data>>, "."),
     subsections |-> <<sub_c, sub_b, sub_d, sub_a, sub_e>>]

\* "Data tests" / "testing 12345 data. "
sec_tests ==
    [title |-> Title(10, <<w_data, w_tests>>), level |-> 2,
     content |-> Str1(18, <<w_testing, w_data>>, "."),
     subsections |-> <<sub_e, sub_a>>]

\* "Introduction" / "This paper studies caching. ", a dict without the
\* "subsections" key
sec_intro ==
    [title |-> Title(12, <<w_introduction>>), level |-> 1,
     content |-> Str1(26, <<w_this, w_paper, w_studies, w_caching>>, ".")]

SecVocab == { sec_overview, sec_data, sec_results, sec_tests, sec_intro }

\* the longest list handed to match_sections
MaxSections == 17

\* the list of n sections that repeats the pair pat, the i-th on page i
SectionList(pat, n) ==
    [i \in 1..n |-> [page |-> i] @@ pat[((i - 1) % Len(pat)) + 1]]

(***************************************************************************)
(* SpecRank: match_sections on a list of sections, then on its own result  *)
(***************************************************************************)
RankIdle ==
    /\ persona = <<>> /\ job_to_be_done = <<>>
    /\ model = "none" /\ encoder = [seed |-> 0, raises |-> "never"]
    /\ all_sections = <<>> /\ relevant_sections = <<>> /\ reranked = <<>>

SegmentIdle ==
    document = [pages |-> <<>>] /\ extracted = <<>> /\ classified = <<>>

SplitIdle == split_input = <<>> /\ split_result = <<>>

BatchIdle ==
    /\ pdf_files = <<>> /\ futures = <<>> /\ results = <<>>
    /\ processed_documents = <<>> /\ failed_log = <<>>
    /\ rank_calls = 0 /\ output_data = None

InitRank ==
    /\ pc = "rank_input"
    /\ \E q \in Queries : persona = q.persona /\ job_to_be_done = q.job
    /\ \E e \in Encoders : model = e.model /\ encoder = e.encoder
    /\ \E pat \in SecVocab \X SecVocab, n \in 0..MaxSections :
           all_sections = SectionList(pat, n)
    /\ relevant_sections = <<>>
    /\ reranked = <<>>
    /\ SegmentIdle /\ SplitIdle /\ BatchIdle

\* main.py:117
Rank ==
    /\ pc = "rank_input"
    /\ relevant_sections' = MatchSections(all_sections, persona, job_to_be_done)
    /\ all_sections' = InputAfter(all_sections, persona, job_to_be_done)
    /\ pc' = "ranked"
    /\ UNCHANGED <<persona, job_to_be_done, model, encoder, reranked,
                   segmentVars, splitVars, batchVars>>

\* match_sections on the list it returned, same query
Rerank ==
    /\ pc = "ranked"
    /\ reranked' = MatchSections(relevant_sections, persona, job_to_be_done)
    /\ relevant_sections' = InputAfter(relevant_sections, persona, job_to_be_done)
    /\ pc' = "reranked"
    /\ UNCHANGED <<persona, job_to_be_done, model, encoder, all_sections,
                   segmentVars, splitVars, batchVars>>

NextRank == Rank \/ Rerank

SpecRank == InitRank /\ [][NextRank]_vars

(***************************************************************************)
(* SpecScore: _calculate_keyword_relevance on a section whose content      *)
(* gains occurrences of query keywords                                     *)
(***************************************************************************)
\* the most occurrences added to one section
MaxOccurrences == 3

\* the section under test
Scored == all_sections[1]

InitScore ==
    /\ pc = "score_input"
    /\ \E q \in Queries : persona = q.persona /\ job_to_be_done = q.job
    /\ model = "none" /\ encoder = [seed |-> 0, raises |-> "never"]
    /\ \E sec \in SecVocab : all_sections = << sec >>
    /\ relevant_sections = <<>>
    /\ reranked = <<>>
    /\ SegmentIdle /\ SplitIdle /\ BatchIdle

\* the content gains the sentence "k." for a query keyword k; the title and
\* the rest of the content stay
AddOccurrence(k) ==
    /\ pc \in {"score_input", "occurrence_added"}
    /\ Len(Scored.content) < MaxOccurrences
    /\ all_sections' =
           << [Scored EXCEPT !.content = @ \o Str1(Len(k), <<k>>, ".")] >>
    /\ pc' = "occurrence_added"
    /\ UNCHANGED <<persona, job_to_be_done, model, encoder, relevant_sections,
                   reranked, segmentVars, splitVars, batchVars>>

NextScore ==
    \E k \in ExtractDynamicKeywords(persona, job_to_be_done) : AddOccurrence(k)

SpecScore == InitScore /\ [][NextScore]_vars

(***************************************************************************)
(* SpecSegment: extract_sections on a parsed document                      *)
(***************************************************************************)
\* a block in the shape PDFParser._extract_multilingual_blocks gives it
Block(kind, page) ==
    [text |-> kind.text, page |-> page, font_size |-> kind.font_size,
     font_flags |-> kind.font_flags, languages |-> kind.text.languages]

BlockKinds ==
    { [text |-> t_h1, font_size |-> 12, font_flags |-> 0],
      [text |-> t_colon, font_size |-> 18, font_flags |-> 0],
      [text |-> t_short, font_size |-> 12, font_flags |-> 0],
      [text |-> t_mid, font_size |-> 12, font_flags |-> 0],
      [text |-> t_body, font_size |-> 12, font_flags |-> 0],
      [text |-> t_para, font_size |-> 10, font_flags |-> 0],
      [text |-> t_long, font_size |-> 12, font_flags |-> 0],
      [text |-> t_tiny, font_size |-> 12, font_flags |-> 16] }

\* the most blocks of a document
MaxBlocks == 4

\* the blocks of one page
PageSize == 2

\* PDFParser.parse on a file whose lines are `kinds`, PageSize to a page
Document(kinds, languages) ==
    LET n == Len(kinds)
        np == (n + PageSize - 1) \div PageSize
    IN  [title |-> "title",
         pages |-> [p \in 1..np |->
                      [page_num |-> p,
                       blocks |-> [i \in 1..Min(PageSize, n - (p - 1) * PageSize) |->
                                     Block(kinds[(p - 1) * PageSize + i], p)]]],
         total_pages |-> np,
         detected_languages |-> languages]

\* what PDFParser.detect_language found on the pages
DocLanguages == { {"latin", "english"}, {"latin", "portuguese"} }

\* "1. Introduction" / "This paper studies caching." / "2. Methodology" /
\* "We use trace replay.", one page
ScenarioDocument ==
    [title |-> "title",
     pages |-> << [page_num |-> 1,
                   blocks |-> << Block([text |-> t_h1, font_size |-> 12, font_flags |-> 0], 1),
                                 Block([text |-> t_short, font_size |-> 12, font_flags |-> 0], 1),
                                 Block([text |-> t_h2, font_size |-> 12, font_flags |-> 0], 1),
                                 Block([text |-> t_trace, font_size |-> 12, font_flags |-> 0], 1) >>] >>,
     total_pages |-> 1,
     detected_languages |-> {"latin", "english"}]

Documents ==
    { Document(kinds, languages) :
        kinds \in UNION { [1..n -> BlockKinds] : n \in 0..MaxBlocks },
        languages \in DocLanguages }
    \cup { ScenarioDocument }

InitSegment ==
    /\ pc = "segment_input"
    /\ document \in Documents
    /\ extracted = <<>>
    /\ classified = <<>>
    /\ RankIdle /\ SplitIdle /\ BatchIdle

\* main.py:27
Segment ==
    /\ pc = "segment_input"
    /\ extracted' = ExtractSections(document)
    /\ pc' = "segmented"
    /\ UNCHANGED <<document, classified, rankVars, splitVars, batchVars>>

NextSegment == Segment

SpecSegment == InitSegment /\ [][NextSegment]_vars

(***************************************************************************)
(* SpecPipeline: extract_sections on one document, then match_sections on  *)
(* the sections it returned (main.py:27 and :117)                          *)
(***************************************************************************)
\* the most lines of a document of these runs
MaxPipelineBlocks == 2

PipelineDocuments ==
    { Document(kinds, languages) :
        kinds \in UNION { [1..n -> BlockKinds] : n \in 0..MaxPipelineBlocks },
        languages \in DocLanguages }
    \cup { ScenarioDocument }

InitPipeline ==
    /\ pc = "segment_input"
    /\ document \in PipelineDocuments
    /\ extracted = <<>>
    /\ classified = <<>>
    /\ \E q \in Queries : persona = q.persona /\ job_to_be_done = q.job
    /\ \E e \in Encoders : model = e.model /\ encoder = e.encoder
    /\ all_sections = <<>> /\ relevant_sections = <<>> /\ reranked = <<>>
    /\ SplitIdle /\ BatchIdle

\* main.py:101 and :117: the sections of the document are ranked
RankExtracted ==
    /\ pc = "segmented"
    /\ all_sections' = InputAfter(extracted, persona, job_to_be_done)
    /\ relevant_sections' = MatchSections(extracted, persona, job_to_be_done)
    /\ pc' = "segment_ranked"
    /\ UNCHANGED <<persona, job_to_be_done, model, encoder, reranked,
                   segmentVars, splitVars, batchVars>>

NextPipeline == Segment \/ RankExtracted

SpecPipeline == InitPipeline /\ [][NextPipeline]_vars

(***************************************************************************)
(* SpecHeading: _is_quality_heading and _determine_heading_level on the    *)
(* blocks of one page, as extract_sections calls them                      *)
(* (section_extractor.py:52 and :64)                                       *)
(***************************************************************************)
\* the font sizes on a page
FontSizes == {8, 10, 12, 14, 16}

\* the most blocks on a page besides the first
MaxOtherBlocks == 3

\* the first block of the page: a plain line, a numbered heading, a line
\* with a section keyword, a line of 2 characters or one of 901, in any
\* size, bold or not
FirstBlocks ==
    { Block([text |-> t, font_size |-> f, font_flags |-> fl], 1) :
        t \in {t_body, t_h1, t_kw, t_tiny, t_huge}, f \in FontSizes, fl \in {0, 16} }

\* a one-page document: the first block and plain lines in the given sizes
HeadingPage(first, sizes, languages) ==
    [title |-> "title",
     pages |-> << [page_num |-> 1,
                   blocks |-> <<first>> \o
                       [i \in 1..Len(sizes) |->
                           Block([text |-> t_body, font_size |-> sizes[i],
                                  font_flags |-> 0], 1)]] >>,
     total_pages |-> 1,
     detected_languages |-> languages]

InitHeading ==
    /\ pc = "heading_input"
    /\ \E first \in FirstBlocks, languages \in DocLanguages,
          sizes \in UNION { [1..n -> FontSizes] : n \in 0..MaxOtherBlocks } :
           document = HeadingPage(first, sizes, languages)
    /\ extracted = <<>>
    /\ classified = <<>>
    /\ RankIdle /\ SplitIdle /\ BatchIdle

\* section_extractor.py:52 and :64 on every block of the page
Classify ==
    /\ pc = "heading_input"
    /\ classified' =
           LET page_blocks == document.pages[1].blocks
           IN  [b \in 1..Len(page_blocks) |->
                   [is_heading |-> IsQualityHeading(page_blocks[b], page_blocks,
                                                    document.detected_languages),
                    level |-> DetermineHeadingLevel(page_blocks[b], page_blocks)]]
    /\ pc' = "classified"
    /\ UNCHANGED <<document, extracted, rankVars, splitVars, batchVars>>

NextHeading == Classify

SpecHeading == InitHeading /\ [][NextHeading]_vars

(***************************************************************************)
(* SpecSplit: _extract_quality_subsections on a content                    *)
(***************************************************************************)
\* pieces of 8, 40, 30, 200 and 900 characters, and one of 20 characters
\* that runs on into the next piece
PieceVocab ==
    { [len |-> 8, runs |-> <<w_data>>, term |-> "."],
      [len |-> 40, runs |-> <<w_testing, w_data>>, term |-> "."],
      [len |-> 30, runs |-> <<w_data, w_caching>>, term |-> "?"],
      [len |-> 200, runs |-> <<w_overview, w_data>>, term |-> "."],
      [len |-> 900, runs |-> <<w_caching>>, term |-> "."],
      [len |-> 20, runs |-> <<w_paper>>, term |-> ""] }

\* the most repetitions of one piece
MaxRepeat == 8

Rep(piece, n) == [i \in 1..n |-> piece]

InitSplit ==
    /\ pc = "split_input"
    /\ \E p1 \in PieceVocab, p2 \in PieceVocab, a \in 0..MaxRepeat, b \in 0..MaxRepeat :
           split_input = Rep(p1, a) \o Rep(p2, b)
    /\ split_result = <<>>
    /\ RankIdle /\ SegmentIdle /\ BatchIdle

\* section_extractor.py:55 and :86
Split ==
    /\ pc = "split_input"
    /\ split_result' = ExtractQualitySubsections(split_input, {"latin", "english"})
    /\ pc' = "split"
    /\ UNCHANGED <<split_input, rankVars, segmentVars, batchVars>>

NextSplit == Split

SpecSplit == InitSplit /\ [][NextSplit]_vars

(***************************************************************************)
(* output_formatter.py                                                     *)
(***************************************************************************)
\* dict.get(key, default)
Get(d, key, default) == IF key \in DOMAIN d THEN d[key] ELSE default

\* OutputFormatter.format_output (the timestamp is left out)
FormatOutput(input_documents, p, j, sections) ==
    LET extracted_sections ==
            IF sections = <<>>
            THEN << [document |-> "Unknown",
                     section_title |-> "No relevant sections found",
                     importance_rank |-> 1, page_number |-> 1] >>
            ELSE [i \in 1..Len(sections) |->
                    [document |-> Get(sections[i], "document_name", "Unknown"),
                     section_title |-> Get(sections[i], "title", "Untitled"),
                     importance_rank |-> Get(sections[i], "importance_rank", 0),
                     page_number |-> Get(sections[i], "page", 1)]]
        subsection_analysis ==
            Flatten([i \in 1..Len(sections) |->
                [k \in 1..Len(GetSubsections(sections[i])) |->
                    [document |-> Get(sections[i], "document_name", "Unknown"),
                     refined_text |-> Get(sections[i].subsections[k], "content", ""),
                     page_number |-> Get(sections[i], "page", 1),
                     references |-> Get(sections[i].subsections[k], "references", {}),
                     summary |-> Get(sections[i].subsections[k], "summary", "")]]])
    IN  [metadata |-> [input_documents |-> input_documents,
                       persona |-> p, job_to_be_done |-> j,
                       total_sections_extracted |-> Len(extracted_sections),
                       total_subsections_analyzed |-> Len(subsection_analysis)],
         extracted_sections |-> extracted_sections,
         subsection_analysis |-> subsection_analysis]

(***************************************************************************)
(* Spec: main.py, one batch run                                            *)
(*                                                                         *)
(* A file is [name, behaviour, document]: PDFParser.parse on it returns    *)
(* `document`, or process_single_pdf raises inside its try block           *)
(* ("raises"), or the task never returns ("hangs").                        *)
(***************************************************************************)
\* eight sections "1. Introduction", one to a page
DocBig ==
    Document([i \in 1..16 |->
                 IF i % 2 = 1 THEN [text |-> t_h1, font_size |-> 12, font_flags |-> 0]
                 ELSE [text |-> t_para, font_size |-> 10, font_flags |-> 0]],
             {"latin", "english"})

\* one page, heading and paragraph: one section
DocSmall ==
    Document(<< [text |-> t_colon, font_size |-> 18, font_flags |-> 0],
                [text |-> t_long, font_size |-> 12, font_flags |-> 0] >>,
             {"latin", "portuguese"})

\* a page with one short line: text, and no section
DocBare ==
    Document(<< [text |-> t_short, font_size |-> 12, font_flags |-> 0] >>,
             {"latin", "english"})

\* pdf_parser.py:91, what parse returns when fitz fails on the file
DocError ==
    [title |-> "Error", pages |-> <<>>, total_pages |-> 0, detected_languages |-> {}]

FileKinds ==
    { [behaviour |-> "returns", document |-> DocBig],
      [behaviour |-> "returns", document |-> DocSmall],
      [behaviour |-> "returns", document |-> DocBare],
      [behaviour |-> "returns", document |-> DocError],
      [behaviour |-> "raises", document |-> DocSmall],
      [behaviour |-> "hangs", document |-> DocSmall] }

\* the most files in the input directory
MaxFiles == 4

\* process_single_pdf on a file whose task returns
ProcessSinglePdf(pdf_path) ==
    IF pdf_path.behaviour = "raises" THEN None
    ELSE LET document_data == pdf_path.document
         IN  IF document_data.pages = <<>> THEN None
             ELSE LET sections == ExtractSections(document_data)
                  IN  [pdf_name |-> pdf_path.name,
                       sections |-> [i \in 1..Len(sections) |->
                                        [document_name |-> pdf_path.name,
                                         document_title |-> document_data.title]
                                        @@ sections[i]],
                       success |-> TRUE]

\* the configuration of a run: persona and job_to_be_done of config.json
\* (or the defaults of main.py:59-60) and whether the model loaded
BatchConfigs ==
    { [persona |-> Str1(18, <<w_general, w_researcher>>, ""),
       job |-> Str1(28, <<w_extract, w_relevant, w_information>>, ""),
       model |-> "none", encoder |-> [seed |-> 0, raises |-> "never"]],
      [persona |-> Str1(4, <<w_data>>, ""),
       job |-> Str1(12, <<w_testing, w_data>>, ""),
       model |-> "loaded", encoder |-> [seed |-> 1, raises |-> "never"]] }

Init ==
    /\ pc = "start"
    /\ \E pat \in FileKinds \X FileKinds, n \in 0..MaxFiles :
           pdf_files = [i \in 1..n |-> [name |-> i] @@ pat[((i - 1) % 2) + 1]]
    /\ \E c \in BatchConfigs :
           /\ persona = c.persona /\ job_to_be_done = c.job
           /\ model = c.model /\ encoder = c.encoder
    /\ all_sections = <<>> /\ relevant_sections = <<>> /\ reranked = <<>>
    /\ futures = <<>> /\ results = <<>>
    /\ processed_documents = <<>> /\ failed_log = <<>>
    /\ rank_calls = 0 /\ output_data = None
    /\ SegmentIdle /\ SplitIdle

\* main.py:79-81: no file, the run returns
NoFiles ==
    /\ pc = "start"
    /\ pdf_files = <<>>
    /\ pc' = "no_files"
    /\ UNCHANGED <<rankVars, segmentVars, splitVars, batchVars>>

\* main.py:83-93: every file is submitted to the pool
Submit ==
    /\ pc = "start"
    /\ pdf_files # <<>>
    /\ futures' = [i \in 1..Len(pdf_files) |-> "pending"]
    /\ results' = [i \in 1..Len(pdf_files) |-> None]
    /\ pc' = "collecting"
    /\ UNCHANGED <<rankVars, segmentVars, splitVars, pdf_files,
                   processed_documents, failed_log, rank_calls, output_data>>

\* a free worker of the pool takes the oldest pending task
TaskStart(i) ==
    /\ i \in 1..Len(futures)
    /\ futures[i] = "pending"
    /\ \A k \in 1..(i - 1) : futures[k] # "pending"
    /\ Cardinality({ k \in 1..Len(futures) : futures[k] = "running" }) < MaxWorkers
    /\ futures' = [futures EXCEPT ![i] = "running"]
    /\ UNCHANGED <<pc, rankVars, segmentVars, splitVars, pdf_files, results,
                   processed_documents, failed_log, rank_calls, output_data>>

\* the task extends the lists of main itself when it returns
TaskFinish_WritesShared(i) ==
    /\ i \in 1..Len(futures)
    /\ futures[i] = "running"
    /\ pdf_files[i].behaviour # "hangs"
    /\ futures' = [futures EXCEPT ![i] = "finished"]
    /\ results' = [results EXCEPT ![i] = ProcessSinglePdf(pdf_files[i])]
    /\ IF results'[i] # None
       THEN /\ all_sections' = all_sections \o results'[i].sections
            /\ processed_documents' = Append(processed_documents, results'[i].pdf_name)
       ELSE UNCHANGED <<all_sections, processed_documents>>
    /\ UNCHANGED <<pc, persona, job_to_be_done, model, encoder, relevant_sections,
                   reranked, segmentVars, splitVars, pdf_files,
                   failed_log, rank_calls, output_data>>

\* process_single_pdf returns; a task that hangs never does
TaskFinish(i) ==
    /\ i \in 1..Len(futures)
    /\ futures[i] = "running"
    /\ pdf_files[i].behaviour # "hangs"
    /\ futures' = [futures EXCEPT ![i] = "finished"]
    /\ results' = [results EXCEPT ![i] = ProcessSinglePdf(pdf_files[i])]
    /\ UNCHANGED <<pc, rankVars, segmentVars, splitVars, pdf_files,
                   processed_documents, failed_log, rank_calls, output_data>>

\* main.py:96-107: as_completed yields a finished future and the loop body
\* runs on its result; future.result(timeout=30) on a finished future
\* returns at once
Collect(i) ==
    /\ pc = "collecting"
    /\ i \in 1..Len(futures)
    /\ futures[i] = "finished"
    /\ futures' = [futures EXCEPT ![i] = "yielded"]
    /\ IF results[i] # None /\ results[i].success
       THEN /\ all_sections' = all_sections \o results[i].sections
            /\ processed_documents' = Append(processed_documents, results[i].pdf_name)
            /\ UNCHANGED failed_log
       ELSE /\ failed_log' = Append(failed_log, pdf_files[i].name)
            /\ UNCHANGED <<all_sections, processed_documents>>
    /\ UNCHANGED <<pc, persona, job_to_be_done, model, encoder, relevant_sections,
                   reranked, segmentVars, splitVars, pdf_files, results,
                   rank_calls, output_data>>

\* the collection loop left as soon as one future has been yielded
PoolExit_Early ==
    /\ pc = "collecting"
    /\ \E i \in 1..Len(futures) : futures[i] = "yielded"
    /\ pc' = "collected"
    /\ UNCHANGED <<rankVars, segmentVars, splitVars, batchVars>>

\* main.py:108: as_completed has yielded every future and the pool shuts down
PoolExit ==
    /\ pc = "collecting"
    /\ \A i \in 1..Len(futures) : futures[i] = "yielded"
    /\ pc' = "collected"
    /\ UNCHANGED <<rankVars, segmentVars, splitVars, batchVars>>

\* main.py:111-113: nothing was extracted, the run returns
NoSections ==
    /\ pc = "collected"
    /\ all_sections = <<>>
    /\ pc' = "no_sections"
    /\ UNCHANGED <<rankVars, segmentVars, splitVars, batchVars>>

\* main.py:116-125: the sections are ranked and the output is written
RankAndWrite ==
    /\ pc = "collected"
    /\ all_sections # <<>>
    /\ relevant_sections' = MatchSections(all_sections, persona, job_to_be_done)
    /\ all_sections' = InputAfter(all_sections, persona, job_to_be_done)
    /\ rank_calls' = rank_calls + 1
    /\ output_data' = FormatOutput(processed_documents, persona, job_to_be_done,
                                   relevant_sections')
    /\ pc' = "done"
    /\ UNCHANGED <<persona, job_to_be_done, model, encoder, reranked,
                   segmentVars, splitVars, pdf_files, futures, results,
                   processed_documents, failed_log>>

Next ==
    \/ NoFiles
    \/ Submit
    \/ \E i \in 1..MaxFiles : TaskStart(i)
    \/ \E i \in 1..MaxFiles : TaskFinish(i)
    \/ \E i \in 1..MaxFiles : Collect(i)
    \/ PoolExit
    \/ NoSections
    \/ RankAndWrite

Spec == Init /\ [][Next]_vars

(***************************************************************************)
(* Properties of match_sections (SpecRank).  In SpecRank the i-th input    *)
(* section is on page i, so a returned section names its input position.   *)
(***************************************************************************)
Keywords == ExtractDynamicKeywords(persona, job_to_be_done)

\* the input section a returned section is the scored copy of
InputOf(r) == all_sections[r.page]

\* the ranks 1, 2, ..., Len(result) in output order
DenseRanks(result) ==
    \A i \in 1..Len(result) : result[i].importance_rank = i

\* C2: the list match_sections returns has length min(15, len(sections)) and
\* its importance_rank values, in output order, are 1, 2, ..., len(result);
\* checked on the first call and on the call on the returned list.
C2_TopKDenseRanks ==
    /\ pc \in {"ranked", "reranked"} =>
           /\ Len(relevant_sections) = Min(TopSections, Len(all_sections))
           /\ DenseRanks(relevant_sections)
    /\ pc = "reranked" =>
           /\ Len(reranked) = Min(TopSections, Len(relevant_sections))
           /\ DenseRanks(reranked)

\* more than 15 sections went in, 15 came out, the last with rank 15
C2_Witness ==
    /\ pc = "ranked"
    /\ Len(all_sections) > TopSections
    /\ Len(relevant_sections) = TopSections
    /\ relevant_sections[TopSections].importance_rank = TopSections

\* C3: the returned list is in non-increasing relevance_score order, each
\* returned section is an input section with the score the scorer gives it,
\* every discarded section scores no more than every retained one, equal
\* scores keep their input order, and with an empty persona and task in
\* lexical-only mode every score is 0 and the output is the first 15 input
\* sections in input order.
C3_SortedStableTopK ==
    pc = "ranked" =>
        LET res == relevant_sections
            n == Len(res)
            kept == { res[i].page : i \in 1..n }
        IN  /\ \A i \in 1..n :
                   /\ res[i].page \in 1..Len(all_sections)
                   /\ res[i].title = InputOf(res[i]).title
                   /\ res[i].content = InputOf(res[i]).content
                   /\ res[i].relevance_score = RelevanceScore(InputOf(res[i]), Keywords)
            /\ Cardinality(kept) = n
            /\ \A i \in 1..n, j \in 1..n :
                   i < j => /\ res[i].relevance_score >= res[j].relevance_score
                            /\ res[i].relevance_score = res[j].relevance_score
                                   => res[i].page < res[j].page
            /\ \A k \in 1..Len(all_sections) :
                   k \notin kept =>
                       \A i \in 1..n :
                           RelevanceScore(all_sections[k], Keywords)
                               <= res[i].relevance_score
            /\ (persona = <<>> /\ job_to_be_done = <<>> /\ model = "none") =>
                   \A i \in 1..n : res[i].relevance_score = 0 /\ res[i].page = i

\* a ranked list of more than 15 inputs in which two sections tie and two
\* others changed places
C3_Witness ==
    /\ pc = "ranked"
    /\ Len(all_sections) > TopSections
    /\ \E i, j \in 1..Len(relevant_sections) :
           /\ i < j
           /\ relevant_sections[i].relevance_score = relevant_sections[j].relevance_score
    /\ \E i, j \in 1..Len(relevant_sections) :
           /\ i < j
           /\ relevant_sections[i].relevance_score > relevant_sections[j].relevance_score
           /\ relevant_sections[i].page > relevant_sections[j].page

\* C5 (as claimed): match_sections returns, and the score of a section is
\* its unscaled keyword score when the model is absent or encode raises on
\* the section, and 0.7 * semantic + 0.3 * keyword otherwise.
C5_LexicalWhenEmbeddingFails ==
    pc = "ranked" =>
        \A i \in 1..Len(relevant_sections) :
            LET sec == InputOf(relevant_sections[i])
                kw == CalculateKeywordRelevance(sec, Keywords)
            IN  relevant_sections[i].relevance_score =
                    IF model = "none" \/ EncodeRaises(sec)
                    THEN 10 * kw
                    ELSE 7 * Max(0, CosineMilli(sec)) + 3 * kw

\* C7: match_sections applied to its own result, same query, returns the
\* same sections in the same order with the same scores, ranks and
\* subsections.
C7_RankIdempotent == pc = "reranked" => reranked = relevant_sections

\* a second call on a list of three or more with a tie, a loaded model and a
\* section that kept two subsections
C7_Witness ==
    /\ pc = "reranked"
    /\ model = "loaded"
    /\ Len(reranked) >= 3
    /\ \E i, j \in 1..Len(reranked) :
           i < j /\ reranked[i].relevance_score = reranked[j].relevance_score
    /\ \E i \in 1..Len(reranked) : Len(reranked[i].subsections) >= 2

\* the scored copy of a subsection
ScoredCopy(sub) ==
    [relevance_score |-> CalculateSubsectionRelevance(sub, Keywords)] @@ sub

\* C9: a returned section carries min(3, n) of its n subsections, in
\* non-increasing relevance_score order; they are scored copies of distinct
\* input subsections and no dropped subsection scores more than a kept one.
C9_SubsectionCap ==
    pc = "ranked" =>
        \A i \in 1..Len(relevant_sections) :
            LET subs == relevant_sections[i].subsections
                given == GetSubsections(InputOf(relevant_sections[i]))
                kept == { k \in 1..Len(given) :
                            \E a \in 1..Len(subs) : subs[a] = ScoredCopy(given[k]) }
            IN  /\ Len(subs) <= TopSubsections
                /\ Len(subs) = Min(TopSubsections, Len(given))
                /\ \A a \in 1..Len(subs) :
                       \E k \in 1..Len(given) : subs[a] = ScoredCopy(given[k])
                /\ Cardinality(kept) = Len(subs)
                /\ \A a \in 1..Len(subs), b \in 1..Len(subs) :
                       a < b => subs[a].relevance_score >= subs[b].relevance_score
                /\ \A k \in 1..Len(given), a \in 1..Len(subs) :
                       k \notin kept =>
                           CalculateSubsectionRelevance(given[k], Keywords)
                               <= subs[a].relevance_score

\* a section with five subsections came back with three of different scores
C9_Witness ==
    /\ pc = "ranked"
    /\ \E i \in 1..Len(relevant_sections) :
           /\ Len(GetSubsections(InputOf(relevant_sections[i]))) > TopSubsections
           /\ Len(relevant_sections[i].subsections) = TopSubsections
           /\ relevant_sections[i].subsections[1].relevance_score
                  > relevant_sections[i].subsections[TopSubsections].relevance_score

\* the keys match_sections writes
ScoreKeys == {"relevance_score", "importance_rank"}

\* no dict of the list, section or subsection, has a key match_sections
\* writes
Unscored(sections) ==
    \A i \in 1..Len(sections) :
        /\ DOMAIN sections[i] \cap ScoreKeys = {}
        /\ \A k \in 1..Len(GetSubsections(sections[i])) :
               DOMAIN GetSubsections(sections[i])[k] \cap ScoreKeys = {}

\* C18: match_sections leaves its inputs unchanged.  The call on all_sections
\* leaves the list, its section dicts and their subsection dicts as they
\* were: same length and order, same keys and values, no relevance_score or
\* importance_rank added, no subsections list reordered or cut; the call on
\* the returned list leaves that list as it was too.  The scores and ranks
\* are on the returned copies only.
C18_InputsUnchanged ==
    /\ [][/\ (pc = "rank_input" /\ pc' = "ranked") => all_sections' = all_sections
          /\ (pc = "ranked" /\ pc' = "reranked") =>
                 relevant_sections' = relevant_sections]_vars
    /\ [](pc \in {"ranked", "reranked"} =>
              /\ Unscored(all_sections)
              /\ \A i \in 1..Len(relevant_sections) :
                     ScoreKeys \subseteq DOMAIN relevant_sections[i])

\* match_sections has returned; an input section still has its five
\* subsections, in their order and without a score, and its returned copy
\* has three, scored
C18_Witness ==
    /\ pc = "ranked"
    /\ \E i \in 1..Len(relevant_sections) :
           /\ GetSubsections(InputOf(relevant_sections[i]))
                  = <<sub_c, sub_b, sub_d, sub_a, sub_e>>
           /\ "relevance_score" \notin DOMAIN InputOf(relevant_sections[i])
           /\ Len(relevant_sections[i].subsections) = TopSubsections
           /\ \A k \in 1..TopSubsections :
                  "relevance_score" \in DOMAIN relevant_sections[i].subsections[k]
           /\ relevant_sections[i].importance_rank = i

(***************************************************************************)
(* Properties of extract_sections (SpecSegment)                            *)
(***************************************************************************)
\* the document has a block with text
HasText(document_data) ==
    \E p \in 1..Len(document_data.pages) :
        \E b \in 1..Len(document_data.pages[p].blocks) :
            StrLen(document_data.pages[p].blocks[b].text.str) > 0

\* C1 (as claimed): extract_sections returns at least one section for every
\* document that has at least one non-empty text block.
C1_AtLeastOneSection ==
    (pc = "segmented" /\ HasText(document)) => extracted # <<>>

\* the blocks of the document in reading order, each with the blocks of its
\* page; blocks of fewer than 3 characters are passed over
FlatBlocks ==
    SelectSeq(Flatten([p \in 1..Len(document.pages) |->
                  [b \in 1..Len(document.pages[p].blocks) |->
                      [block |-> document.pages[p].blocks[b],
                       page_blocks |-> document.pages[p].blocks]]]),
              LAMBDA fb : StrLen(fb.block.text.str) >= 3)

\* the i-th block is classified a heading
HeadingAt(i) ==
    IsQualityHeading(FlatBlocks[i].block, FlatBlocks[i].page_blocks,
                     document.detected_languages)

\* where a section opens: at every heading, and at 0 when the document
\* starts with body text
SectionStarts ==
    { i \in 1..Len(FlatBlocks) : HeadingAt(i) }
        \cup (IF FlatBlocks # <<>> /\ ~HeadingAt(1) THEN {0} ELSE {})

\* the last block of the section opened at i: the one before the next
\* heading
SectionEnd(i) ==
    CHOOSE j \in i..Len(FlatBlocks) :
        /\ \A k \in (i + 1)..j : ~HeadingAt(k)
        /\ j = Len(FlatBlocks) \/ HeadingAt(j + 1)

\* the text between the heading at i and the next heading
BodyText(i) ==
    Flatten([k \in 1..(SectionEnd(i) - i) |-> FlatBlocks[i + k].block.text.str])

\* the page of the block that opens the section
StartPage(i) == FlatBlocks[IF i = 0 THEN 1 ELSE i].block.page

\* C11: every section extract_sections returns has a content of more than 50
\* characters, so none is empty; each is the section opened at one heading
\* (or at the start of the document) and its content is exactly the text of
\* the blocks between that heading and the next, in document order.  A
\* section closed with a content of 50 characters or fewer is not in the
\* result and its text is in no other section.
C11_ShortSectionsDropped ==
    pc = "segmented" =>
        /\ \A k \in 1..Len(extracted) : StrLen(extracted[k].content) > 50
        /\ \E f \in [1..Len(extracted) -> SectionStarts] :
               /\ \A k \in 1..Len(extracted) :
                      /\ extracted[k].content = BodyText(f[k])
                      /\ extracted[k].page = StartPage(f[k])
               /\ \A k \in 1..Len(extracted), l \in 1..Len(extracted) :
                      k < l => f[k] < f[l]
        /\ \A i \in SectionStarts :
               StrLen(BodyText(i)) <= 50 =>
                   \A k \in 1..Len(extracted) :
                       ~(extracted[k].page = StartPage(i)
                         /\ extracted[k].content = BodyText(i))

\* a section with a short text was closed by a heading and dropped, and the
\* section after it was kept
C11_Witness ==
    /\ pc = "segmented"
    /\ extracted # <<>>
    /\ \E i \in SectionStarts :
           /\ BodyText(i) # <<>>
           /\ StrLen(BodyText(i)) <= 50
           /\ \E j \in SectionStarts :
                  j > i /\ extracted[Len(extracted)].content = BodyText(j)

\* the sentence-ending marks ".", "!" and "?" in a content
EndMarks(content) ==
    Cardinality({ i \in 1..Len(content) : content[i].term \in {".", "!", "?"} })

\* the periods in a content
Periods(content) ==
    Cardinality({ i \in 1..Len(content) : content[i].term = "." })

\* the gate as claimed: more than 3 sentence-ending marks
ClaimedGate(section) ==
    IF GenericTitle(section.title) THEN StrLen(section.content) > 200
    ELSE /\ StrLen(section.content) >= 50
         /\ \/ Len(section.subsections) >= 1
            \/ EndMarks(section.content) > 3

\* the gate as amended: at least 3 periods
PeriodGate(section) ==
    IF GenericTitle(section.title) THEN StrLen(section.content) > 200
    ELSE /\ StrLen(section.content) >= 50
         /\ \/ Len(section.subsections) >= 1
            \/ Periods(section.content) >= 3

\* C13 (as claimed): a finalized section with a non-generic title is kept
\* iff its content has at least 50 characters and it has a subsection or its
\* content holds more than 3 sentence-ending punctuation marks; one with a
\* generic title, or a title shorter than 3 characters, is kept iff its
\* content has more than 200 characters.
C13_QualityGateMarks ==
    pc = "segmented" =>
        extracted = SelectSeq(FinalizedSections(document), ClaimedGate)

\* C13 (amended): a finalized section with a non-generic title is kept iff
\* its content has at least 50 characters and it has a subsection or its
\* content holds at least 3 periods ("." only; "!" and "?" do not count);
\* one with a generic title, or a title shorter than 3 characters, is kept
\* iff its content has more than 200 characters.
C13_QualityGatePeriods ==
    pc = "segmented" =>
        extracted = SelectSeq(FinalizedSections(document), PeriodGate)

\* a kept section with a heading title, exactly 3 periods and no subsection
C13_Witness ==
    /\ pc = "segmented"
    /\ Len(FinalizedSections(document)) = Len(extracted)
    /\ \E k \in 1..Len(extracted) :
           /\ ~GenericTitle(extracted[k].title)
           /\ extracted[k].subsections = <<>>
           /\ Periods(extracted[k].content) = 3
           /\ EndMarks(extracted[k].content) = 3

(***************************************************************************)
(* Properties of the heading classifier (SpecHeading)                      *)
(***************************************************************************)
\* the blocks of the page
PageBlocks == document.pages[1].blocks

\* the stripped text of block b has between 3 and 200 characters
LengthInRange(b) ==
    /\ 3 <= StrLen(PageBlocks[b].text.str)
    /\ StrLen(PageBlocks[b].text.str) <= 200

\* the font size of block b is more than num/10 times the average font size
\* of the page
FontAbove(b, num) ==
    PageBlocks[b].font_size * 10 * Len(PageBlocks) > num * SumFonts(PageBlocks)

\* block b gives no signal but its font: no heading pattern, no section
\* keyword of a document language, not bold
FontOnly(b) ==
    /\ ~PageBlocks[b].text.pattern
    /\ PageBlocks[b].text.keyword_langs \cap document.detected_languages = {}
    /\ ~Bold(PageBlocks[b].font_flags)

\* C15 (as claimed): a block whose stripped text has between 3 and 200
\* characters is classified a heading whenever its font size is greater
\* than 1.2 times the average font size of the page's blocks.
C15_FontSignalTwelveTenths ==
    pc = "classified" =>
        \A b \in 1..Len(PageBlocks) :
            (LengthInRange(b) /\ FontAbove(b, 12)) => classified[b].is_heading

\* C15 (amended): a block whose stripped text has between 3 and 200
\* characters is classified a heading whenever its font size is greater
\* than 1.3 times the average font size of the page's blocks, whatever the
\* other signals say; a block with no other signal whose font size is at
\* most 1.3 times the average is not a heading.
C15_FontSignalThirteenTenths ==
    pc = "classified" =>
        \A b \in 1..Len(PageBlocks) :
            /\ (LengthInRange(b) /\ FontAbove(b, 13)) => classified[b].is_heading
            /\ (FontOnly(b) /\ ~FontAbove(b, 13)) => ~classified[b].is_heading

\* a plain line in range whose font is above 1.3 times the average was
\* classified a heading, and one between 1.2 and 1.3 times was not
C15_Witness ==
    /\ pc = "classified"
    /\ \E b \in 1..Len(PageBlocks) :
           /\ LengthInRange(b) /\ FontOnly(b) /\ FontAbove(b, 13)
           /\ classified[b].is_heading
    /\ \E b \in 1..Len(PageBlocks) :
           /\ LengthInRange(b) /\ FontOnly(b)
           /\ FontAbove(b, 12) /\ ~FontAbove(b, 13)
           /\ ~classified[b].is_heading

\* the 1-based rank of block b's font size among the distinct sizes of the
\* page, largest first
FontRank(b) ==
    1 + Cardinality({ PageBlocks[o].font_size : o \in 1..Len(PageBlocks) }
                        \cap { f \in FontSizes : f > PageBlocks[b].font_size })

\* C16 (as claimed): the heading level is 1, 2 or 3; for a block without a
\* leading enumerator it is the rank of the block's font size among the
\* distinct sizes of the page when that rank is at most 3, and 3 when the
\* size is not among the three largest.
C16_LevelIsCappedRank ==
    pc = "classified" =>
        \A b \in 1..Len(PageBlocks) :
            /\ classified[b].level \in {1, 2, 3}
            /\ PageBlocks[b].text.numbered = 0 =>
                   classified[b].level =
                       IF FontRank(b) <= 3 THEN FontRank(b) ELSE 3

(***************************************************************************)
(* Properties of extract_sections followed by match_sections               *)
(* (SpecPipeline)                                                          *)
(***************************************************************************)
\* a returned section whose title holds the word
TitledAt(wd) ==
    { k \in 1..Len(relevant_sections) :
        \E n \in 1..Len(relevant_sections[k].title.runs) :
            relevant_sections[k].title.runs[n] = wd }

\* C12 (as claimed): for the document "1. Introduction" / "This paper
\* studies caching." / "2. Methodology" / "We use trace replay." with
\* persona "Systems Researcher" and task "understand caching approach",
\* extract_sections followed by match_sections returns a section titled
\* Introduction and a section titled Methodology, the first with the
\* strictly smaller importance_rank.
C12_IntroductionOutranksMethodology ==
    (/\ pc = "segment_ranked"
     /\ document = ScenarioDocument
     /\ persona = Str1(18, <<w_systems, w_researcher>>, "")
     /\ job_to_be_done = Str1(27, <<w_understand, w_caching, w_approach>>, ""))
        => \E i \in TitledAt(w_introduction), m \in TitledAt(w_methodology) :
               relevant_sections[i].importance_rank
                   < relevant_sections[m].importance_rank

(***************************************************************************)
(* Properties of _extract_quality_subsections (SpecSplit)                  *)
(***************************************************************************)
\* C10 (as claimed): every subsection the splitter produces has a content of
\* at most 800 characters and a summary of at most 300 characters, the
\* ellipsis included.
C10_SubsectionLengths ==
    pc = "split" =>
        \A i \in 1..Len(split_result) :
            /\ split_result[i].content.chars <= 800
            /\ split_result[i].summary.chars <= 300

\* the sentences _split_into_sentences retains of the content
Retained == SplitIntoSentences(split_input)

\* the k-th group of `size` consecutive sentences
ChunkAt(k, size) ==
    SubSeq(Retained, (k - 1) * size + 1, Min(Len(Retained), k * size))

\* ceil(n / 4)
CeilQuarter(n) == (n + 3) \div 4

\* C14 (as claimed): for a content of at least 100 characters with n
\* retained sentences, the splitter returns exactly one subsection when
\* n <= 3; when n > 3 it returns at most 3 subsections and the k-th one is
\* the k-th group of max(3, ceil(n/4)) consecutive sentences.
C14_ChunksOfCeilQuarter ==
    (pc = "split" /\ StrLen(split_input) >= 100) =>
        IF Len(Retained) <= 3
        THEN Len(split_result) = 1
        ELSE /\ Len(split_result) <= 3
             /\ \A k \in 1..Len(split_result) :
                    split_result[k].content =
                        Clip(JoinSentences(
                                 ChunkAt(k, Max(3, CeilQuarter(Len(Retained))))),
                             800)

(***************************************************************************)
(* Properties of _calculate_keyword_relevance (SpecScore)                  *)
(***************************************************************************)
\* the keyword of the occurrence added last
LastAdded(section) == section.content[Len(section.content)].runs[1]

\* the section before the last occurrence was added
BeforeLast(section) ==
    [section EXCEPT !.content = SubSeq(@, 1, Len(@) - 1)]

\* C8 (as claimed): adding one more occurrence of a query keyword to the
\* content, title and the rest of the content unchanged, never lowers the
\* keyword score (the raw sum divided by ln(word count + 1)).
C8_ScoreMonotone ==
    pc = "occurrence_added" =>
        CalculateKeywordRelevance(Scored, Keywords)
            >= CalculateKeywordRelevance(BeforeLast(Scored), Keywords)

\* C8 (amended): adding one more occurrence of a query keyword to the content
\* never lowers the raw keyword sum, the sum before the division by
\* ln(word count + 1); it raises the sum by at least 2.5 (2.0 for the exact
\* match, 0.5 for the partial match) when the keyword has three letters or
\* more.
C8_RawSumMonotone ==
    pc = "occurrence_added" =>
        /\ RawKeywordSum(Scored, Keywords)
               >= RawKeywordSum(BeforeLast(Scored), Keywords)
        /\ Len(LastAdded(Scored)) >= 3 =>
               RawKeywordSum(Scored, Keywords)
                   >= RawKeywordSum(BeforeLast(Scored), Keywords) + 25

\* an occurrence was added, the raw sum rose and the normalized score fell
C8_Witness ==
    /\ pc = "occurrence_added"
    /\ RawKeywordSum(Scored, Keywords)
           >= RawKeywordSum(BeforeLast(Scored), Keywords) + 25
    /\ CalculateKeywordRelevance(Scored, Keywords)
           < CalculateKeywordRelevance(BeforeLast(Scored), Keywords)

(***************************************************************************)
(* Properties of the batch run (Spec).  A file's name is its index in      *)
(* pdf_files.                                                              *)
(***************************************************************************)
Terminal == {"no_files", "no_sections", "done"}

\* the names in a log
Names(log) == { log[k] : k \in 1..Len(log) }

\* the files whose task raises or never returns
Failing == { i \in 1..Len(pdf_files) : pdf_files[i].behaviour \in {"raises", "hangs"} }

\* ENABLED Next written out: some task can start, finish or be collected, or
\* the collection loop can end, or the run is before or after the loop
CanStep ==
    \/ pc \in {"start", "collected"}
    \/ /\ pc = "collecting"
       /\ \/ \A i \in 1..Len(futures) : futures[i] = "yielded"
          \/ \E i \in 1..Len(futures) : futures[i] = "finished"
          \/ \E i \in 1..Len(futures) :
                 futures[i] = "running" /\ pdf_files[i].behaviour # "hangs"
          \/ /\ \E i \in 1..Len(futures) : futures[i] = "pending"
             /\ Cardinality({ k \in 1..Len(futures) : futures[k] = "running" })
                    < MaxWorkers

\* C4 (as claimed): a run never stops before its end, whatever documents
\* raise or never finish; and at the end of a run every document that raised
\* or did not finish is recorded as failed and none of its sections is in
\* the aggregate.
C4_FailureIsolated ==
    /\ pc \in Terminal \/ CanStep
    /\ pc \in {"no_sections", "done"} =>
           \A i \in Failing :
               /\ i \in Names(failed_log)
               /\ i \notin Names(processed_documents)
               /\ \A k \in 1..Len(all_sections) : all_sections[k].document_name # i

FileNamed(name) ==
    pdf_files[CHOOSE i \in 1..Len(pdf_files) : pdf_files[i].name = name]

\* the files whose task gives main no result: it raises, hangs, or the
\* document has no page
Failed ==
    { pdf_files[i].name : i \in { k \in 1..Len(pdf_files) :
                                     \/ pdf_files[k].behaviour # "returns"
                                     \/ pdf_files[k].document.pages = <<>> } }

\* the sections of a document as its task returns them: in segment order,
\* tagged with the name of the file
TaggedSections(name) ==
    LET sections == ExtractSections(FileNamed(name).document)
    IN  [k \in 1..Len(sections) |->
            [document_name |-> name,
             document_title |-> FileNamed(name).document.title] @@ sections[k]]

\* a worker of the pool takes a step: a future starts running or finishes
WorkerStep ==
    \E i \in 1..Len(futures) :
        /\ i \in 1..Len(futures')
        /\ futures'[i] # futures[i]
        /\ futures'[i] \in {"running", "finished"}

\* C17: under every order in which the tasks complete, a step of a worker
\* leaves all_sections and processed_documents alone; no document is twice
\* in processed_documents; all_sections is the concatenation, in the order
\* of processed_documents, of each processed document's sections in segment
\* order, tagged with the document's name; no failed document is processed
\* and no section of one is in all_sections.
C17_AggregateConsistent ==
    /\ [](/\ \A a, b \in 1..Len(processed_documents) :
                 processed_documents[a] = processed_documents[b] => a = b
          /\ all_sections =
                 Flatten([k \in 1..Len(processed_documents) |->
                             TaggedSections(processed_documents[k])])
          /\ Names(processed_documents) \cap Failed = {}
          /\ \A k \in 1..Len(all_sections) :
                 all_sections[k].document_name \notin Failed)
    /\ [][WorkerStep => UNCHANGED <<all_sections, processed_documents>>]_vars

\* the collection is over; two documents were processed in the reverse of
\* their submission order, both have sections in all_sections, and a third
\* file failed
C17_Witness ==
    /\ pc = "collected"
    /\ Len(processed_documents) >= 2
    /\ processed_documents[1] > processed_documents[2]
    /\ \A d \in 1..2 :
           \E k \in 1..Len(all_sections) :
               all_sections[k].document_name = processed_documents[d]
    /\ failed_log # <<>>

====
